---------------------------- MODULE Spec2Model ----------------------------
(***************************************************************************)
(* Model of the BMP180 pressure/temperature driver (BMP180.h, BMP180.cpp). *)
(*                                                                         *)
(* A 32-bit C value (int32_t or uint32_t) is represented by the signed     *)
(* reading of its bit pattern, an integer in -2^31 .. 2^31-1, so that an   *)
(* int32_t <-> uint32_t conversion is the identity on representations and  *)
(* only the operators (logical or arithmetic shift, signed or unsigned     *)
(* division and comparison) differ.  TLC's integers are 32 bits wide, so   *)
(* the wrapping operators work on 16-bit halves.                           *)
(* Signed arithmetic that overflows wraps, as the two's-complement targets *)
(* of the driver (AVR, ARM) compute it.                                    *)
(*                                                                         *)
(* temp is kept in tenths of a degree (the int32_t T of update_temp; the   *)
(* float is T * 0.1f) and pres in pascal (the int32_t p of update_pres;    *)
(* the float is p * 0.001f).  Altitudes are floats of the program; they    *)
(* are modelled as records [nan, v] with v in centimetres.                 *)
(***************************************************************************)
EXTENDS Integers, Sequences, FiniteSets, TLC

----------------------------------------------------------------------------
(* 32-bit arithmetic *)

Lo16(a) == a % 65536
Hi16(a) == (a \div 65536) % 65536

\* the 32-bit value with the given 16-bit halves
Mk32(hi, lo) == IF hi >= 32768 THEN (hi - 65536) * 65536 + lo ELSE hi * 65536 + lo

\* a + b modulo 2^32
Add32(a, b) ==
    LET lo == Lo16(a) + Lo16(b)
        hi == Hi16(a) + Hi16(b) + (lo \div 65536)
    IN  Mk32(hi % 65536, lo % 65536)

\* a - b modulo 2^32
Sub32(a, b) ==
    LET lo == Lo16(a) - Lo16(b)
        hi == Hi16(a) - Hi16(b) + (lo \div 65536)
    IN  Mk32(hi % 65536, lo % 65536)

\* the full 32-bit product of two 16-bit values, as halves <<hi, lo>>
Mul16(a, b) ==
    LET a1 == a \div 256
        a0 == a % 256
        b1 == b \div 256
        b0 == b % 256
        mid == a1 * b0 + a0 * b1
        los == a0 * b0 + (mid % 256) * 256
    IN  << a1 * b1 + (mid \div 256) + (los \div 65536), los % 65536 >>

\* a * b modulo 2^32
Mul32(a, b) ==
    LET ll == Mul16(Lo16(a), Lo16(b))
        hl == Mul16(Hi16(a), Lo16(b))
        lh == Mul16(Lo16(a), Hi16(b))
    IN  Mk32((ll[1] + hl[2] + lh[2]) % 65536, ll[2])

RECURSIVE Pow2(_)
Pow2(k) == IF k = 0 THEN 1 ELSE 2 * Pow2(k - 1)

\* a << k modulo 2^32, 0 <= k <= 31
RECURSIVE Shl32(_, _)
Shl32(a, k) == IF k = 0 THEN a ELSE Shl32(Add32(a, a), k - 1)

\* a >> k of a signed value (arithmetic shift), 0 <= k <= 30
Sar32(a, k) == a \div Pow2(k)

\* a >> k of an unsigned value (logical shift), 0 <= k <= 31
Shr32(a, k) ==
    IF a >= 0 THEN a \div Pow2(k)
    ELSE IF k = 0 THEN a
    ELSE (((a \div 2) + 1073741824) + 1073741824) \div Pow2(k - 1)

\* a < b of unsigned values
ULt32(a, b) == IF (a < 0) = (b < 0) THEN a < b ELSE b < 0

\* a / b of unsigned values, b # 0
UDiv32(a, b) ==
    IF b < 0 THEN (IF ULt32(a, b) THEN 0 ELSE 1)
    ELSE IF a >= 0 THEN a \div b
    ELSE LET ah == Shr32(a, 1)
             q1 == ah \div b
             r1 == ah % b
             e  == IF r1 >= b - r1 - (a % 2) THEN 1 ELSE 0
         IN  Add32(Add32(q1, q1), e)

\* a / b of signed values, truncated toward zero, b > 0
SDivPos(a, b) == IF a >= 0 \/ a % b = 0 THEN a \div b ELSE (a \div b) + 1

\* a / b of signed values, truncated toward zero, b # 0
SDiv32(a, b) ==
    IF b > 0 THEN SDivPos(a, b)
    ELSE IF b = -2147483647 - 1 THEN (IF a = b THEN 1 ELSE 0)
    ELSE Sub32(0, SDivPos(a, -b))

----------------------------------------------------------------------------
(* Registers and commands (BMP180.h) *)

reg_cal_addr    == 170
reg_id_addr     == 208
reg_id_val      == 85
reg_select_addr == 244
reg_select_temp == 46
reg_select_oss1 == 52
reg_select_oss2 == 116
reg_select_oss4 == 180
reg_select_oss8 == 244
reg_data_addr   == 246

----------------------------------------------------------------------------
(* The bus transport, constructed msb_first: multi-byte values arrive with *)
(* the most significant byte first.  buf is the byte sequence of a read,   *)
(* i the position of the value in it.                                       *)

read_uint8(buf, i)  == buf[i]
read_uint16(buf, i) == buf[i] * 256 + buf[i + 1]
read_int16(buf, i)  ==
    IF read_uint16(buf, i) >= 32768 THEN read_uint16(buf, i) - 65536
    ELSE read_uint16(buf, i)

\* one entry of the transaction log: a register write, a wait, a register read
BusWrite(reg, val)  == << "write", reg, 1, << val >> >>
BusWait(us)         == << "wait", us, 0, << >> >>
BusRead(reg, n, data) == << "read", reg, n, data >>

----------------------------------------------------------------------------
(* Floats that may be NaN: altitudes, in centimetres *)

F(v)  == [nan |-> FALSE, v |-> v]
NaN   == [nan |-> TRUE, v |-> 0]
FSub(a, b) == IF a.nan \/ b.nan THEN NaN ELSE F(a.v - b.v)

\* coefficients, times 10^5, of 1 - (1 - d)^0.190295 = c1 d + c2 d^2 + ...
PowCoef == << 19030, 7704, 4647, 3264, 2487, 1994, 1655, 1409, 1222, 1077 >>

RECURSIVE Horner(_, _)
Horner(n, d4) ==
    IF n > Len(PowCoef) THEN 0
    ELSE ((PowCoef[n] + Horner(n + 1, d4)) * d4) \div 10000

\* 44330.0f * (1.0f - powf(p / sea_level_p, 0.190295f)), p and sea_level_p in
\* pascal, the result in centimetres; powf of a negative base is NaN.  The
\* power is evaluated by its series in d = 1 - p / sea_level_p, with d cut to
\* [-1, 1].
Altitude(p, sea_level_p) ==
    IF p < 0 THEN NaN
    ELSE LET q  == IF p > 2 * sea_level_p THEN 2 * sea_level_p ELSE p
             d4 == ((sea_level_p - q) * 10000) \div sea_level_p
         IN  F((4433 * Horner(1, d4)) \div 100)

----------------------------------------------------------------------------
(* Compensation arithmetic *)

\* the decoding with ac4 read as a signed value, like ac1..ac3 before it
DecodeCalSigned(blk) ==
    [ac1 |-> read_int16(blk, 1),   ac2 |-> read_int16(blk, 3),
     ac3 |-> read_int16(blk, 5),   ac4 |-> read_int16(blk, 7),
     ac5 |-> read_uint16(blk, 9),  ac6 |-> read_uint16(blk, 11),
     b1  |-> read_int16(blk, 13),  b2  |-> read_int16(blk, 15),
     mb  |-> read_int16(blk, 17),  mc  |-> read_int16(blk, 19),
     md  |-> read_int16(blk, 21)]

\* BMP180::init, the decoding of the 22-byte calibration block
DecodeCal(blk) ==
    [ac1 |-> read_int16(blk, 1),   ac2 |-> read_int16(blk, 3),
     ac3 |-> read_int16(blk, 5),   ac4 |-> read_uint16(blk, 7),
     ac5 |-> read_uint16(blk, 9),  ac6 |-> read_uint16(blk, 11),
     b1  |-> read_int16(blk, 13),  b2  |-> read_int16(blk, 15),
     mb  |-> read_int16(blk, 17),  mc  |-> read_int16(blk, 19),
     md  |-> read_int16(blk, 21)]

\* the switch with the delay of samples_2x copied into the case of samples_4x
SamplingParamsSlip(s) ==
    CASE s = "samples_1x" -> [reg |-> reg_select_oss1, us |-> 4500,  shift |-> 0]
      [] s = "samples_2x" -> [reg |-> reg_select_oss2, us |-> 7500,  shift |-> 1]
      [] s = "samples_4x" -> [reg |-> reg_select_oss4, us |-> 7500,  shift |-> 2]
      [] s = "samples_8x" -> [reg |-> reg_select_oss8, us |-> 25500, shift |-> 3]

\* BMP180::set_sampling, the switch: trigger code, delay, shift of a setting
SamplingParams(s) ==
    CASE s = "samples_1x" -> [reg |-> reg_select_oss1, us |-> 4500,  shift |-> 0]
      [] s = "samples_2x" -> [reg |-> reg_select_oss2, us |-> 7500,  shift |-> 1]
      [] s = "samples_4x" -> [reg |-> reg_select_oss4, us |-> 13500, shift |-> 2]
      [] s = "samples_8x" -> [reg |-> reg_select_oss8, us |-> 25500, shift |-> 3]

\* update_temp: x1 = ((UT - ac6) * ac5) >> 15, on uint32_t operands
TempX1(c, UT) == Shr32(Mul32(Sub32(UT, c.ac6), c.ac5), 15)

\* update_temp: the divisor x1 + md of x2
TempDen(c, UT) == Add32(TempX1(c, UT), c.md)

\* b5 with the quotient x2 rounded down instead of towards zero
TempB5Floor(c, UT) ==
    LET den == TempDen(c, UT)
        num == Shl32(c.mc, 11)
    IN  Add32(TempX1(c, UT), IF den > 0 THEN num \div den ELSE SDiv32(num, den))

\* update_temp: b5 = x1 + x2 with x2 = (mc << 11) / (x1 + md), divisor non-zero
TempB5(c, UT) == Add32(TempX1(c, UT), SDiv32(Shl32(c.mc, 11), TempDen(c, UT)))

\* update_temp: T = (b5 + 8) >> 4
TempT(b) == Sar32(Add32(b, 8), 4)

\* UP with the three bytes taken low byte first
RawPresLowFirst(buf, shift) ==
    Sar32(read_uint8(buf, 3) * 65536 + read_uint8(buf, 2) * 256 + read_uint8(buf, 1),
          8 - shift)

\* update_pres: UP = ((msb << 16) + (lsb << 8) + xlsb) >> (8 - oss_shift)
RawPres(buf, shift) ==
    Sar32(read_uint8(buf, 1) * 65536 + read_uint8(buf, 2) * 256 + read_uint8(buf, 3),
          8 - shift)

\* update_pres: (b6 * b6) >> 12
PresB6Sq(b) == Sar32(Mul32(Sub32(b, 4000), Sub32(b, 4000)), 12)

\* update_pres: b3
PresB3(c, shift, b) ==
    LET b6 == Sub32(b, 4000)
        x1 == Sar32(Mul32(c.b2, PresB6Sq(b)), 11)
        x2 == Sar32(Mul32(c.ac2, b6), 11)
        x3 == Add32(x1, x2)
    IN  Sar32(Add32(Shl32(Add32(Shl32(c.ac1, 2), x3), shift), 2), 2)

\* update_pres: b4 = (ac4 * (uint32_t)(x3 + 32768)) >> 15
PresB4(c, b) ==
    LET b6 == Sub32(b, 4000)
        x1 == Sar32(Mul32(c.ac3, b6), 13)
        x2 == Sar32(Mul32(c.b1, PresB6Sq(b)), 16)
        x3 == Sar32(Add32(Add32(x1, x2), 2), 2)
    IN  Shr32(Mul32(c.ac4, Add32(x3, 32768)), 15)

\* update_pres: b7 = (UP - b3) * (uint32_t)(50000 >> oss_shift)
PresB7(c, shift, b, UP) ==
    Mul32(Sub32(UP, PresB3(c, shift, b)), Sar32(50000, shift))

\* the quotient with the branch of b7 >= 0x80000000 taken for every b7
PresQuotShifted(b7, b4) == Shl32(UDiv32(b7, b4), 1)

\* update_pres: the quotient p of b7 and b4, b4 non-zero
PresQuot(b7, b4) ==
    IF b7 >= 0 THEN UDiv32(Shl32(b7, 1), b4)
    ELSE Shl32(UDiv32(b7, b4), 1)

\* update_pres: the final correction of p
PresFinal(p) ==
    LET x0 == Sar32(p, 8)
        x1 == Sar32(Mul32(Mul32(x0, x0), 3038), 16)
        x2 == Sar32(Mul32(-7357, p), 16)
    IN  Add32(p, Sar32(Add32(Add32(x1, x2), 3791), 4))

----------------------------------------------------------------------------
(* What the device and the caller supply *)

\* the byte the identification register answers: the BMP180's, or another
IdBytes == {85, 255}

\* calibration blocks of devices: the reference vector of the specification,
\* the data sheet's example with md one lower, a production unit, and two
\* blocks of extreme values
BlkVector == << 1, 152, 255, 184, 199, 209, 127, 229, 1, 152, 90, 113,
                24, 46, 0, 4, 128, 0, 221, 249, 11, 52 >>
BlkSheet  == << 1, 152, 255, 184, 199, 209, 127, 229, 127, 245, 90, 113,
                24, 46, 0, 4, 128, 0, 221, 249, 11, 51 >>
BlkUnit   == << 32, 48, 251, 84, 198, 139, 128, 144, 97, 127, 64, 103,
                25, 115, 0, 48, 128, 0, 209, 246, 11, 29 >>
BlkEdge   == << 128, 0, 127, 255, 255, 255, 255, 255, 128, 0, 127, 255,
                0, 0, 0, 1, 255, 254, 128, 0, 127, 255 >>
BlkOnes   == << 255, 255, 255, 255, 255, 255, 255, 255, 255, 255, 255, 255,
                255, 255, 255, 255, 255, 255, 255, 255, 255, 255 >>

\* the data sheet's block with ac3 = 14383 and ac4 = 1
BlkLowAc4 == << 1, 152, 255, 184, 56, 47, 0, 1, 127, 245, 90, 113,
                24, 46, 0, 4, 128, 0, 221, 249, 11, 51 >>

\* the data sheet's block with md = -4743
BlkNegMd  == << 1, 152, 255, 184, 199, 209, 127, 229, 127, 245, 90, 113,
                24, 46, 0, 4, 128, 0, 221, 249, 237, 121 >>

\* raw temperature readings, 27898 and 16384, and raw pressure readings
UT27898 == << 108, 250 >>
UT16384 == << 64, 0 >>
UP23843 == << 93, 35, 0 >>
UPOther == << 160, 0, 128 >>

\* the values of sampling_t
Samplings == {"samples_1x", "samples_2x", "samples_4x", "samples_8x"}

\* what a division does: "quot" if the divisor d is non-zero; by zero the
\* processor traps, or the quotient is all zeros or all ones
DivOutcomes(d) == IF d # 0 THEN {"quot"} ELSE {"trap", "zero", "ones"}
Div0Value(o) == IF o = "zero" THEN 0 ELSE -1

\* what a read of n bytes leaves in the buffer when the bus transfer fails:
\* the driver is told nothing, the bytes are those of an idle bus or zeros
LostReads(n) == {[i \in 1 .. n |-> 255], [i \in 1 .. n |-> 0]}

\* how many zero_alt calls a run of the altitude environment makes
MaxZeroAlt == 2

----------------------------------------------------------------------------
(* The constructor leaves every field but alt_zero unset: the memory of the *)
(* object is zero-filled (static storage) or holds what was there before.  *)
(* The leftover b5 is one for which b4 of BlkSheet's calibration is zero.   *)

ZeroFilled ==
    [cal |-> [ac1 |-> 0, ac2 |-> 0, ac3 |-> 0, ac4 |-> 0, ac5 |-> 0, ac6 |-> 0,
              b1 |-> 0, b2 |-> 0, mb |-> 0, mc |-> 0, md |-> 0],
     reg |-> 0, us |-> 0, shift |-> 0, b5 |-> 0, temp |-> 0, pres |-> 0]
Leftover ==
    [cal |-> [ac1 |-> 1515870810, ac2 |-> -23131, ac3 |-> 42405,
              ac4 |-> -1515870811, ac5 |-> 23130, ac6 |-> 1515870810,
              b1 |-> -1, b2 |-> 1515847680, mb |-> 90, mc |-> -42406,
              md |-> 1515870810],
     reg |-> 165, us |-> 42405, shift |-> 5, b5 |-> -238343, temp |-> -23131,
     pres |-> 1515870]

\* The environments of a run: the device's calibration block, the memory the
\* object is constructed in, the readings the device answers, and the
\* settings, sea-level pressures (pascal; 101.325 kPa is the default) and
\* number of zero_alt calls of the caller; lost_t and lost_p are what the
\* reads of a failed transfer yield, empty where the bus never fails.
EnvModes ==
    [blk |-> BlkSheet, mems |-> {ZeroFilled, Leftover},
     temps |-> {UT27898, UT16384}, press |-> {UP23843, UPOther},
     samplings |-> Samplings, seas |-> {101325}, zeros |-> 0,
     lost_t |-> {}, lost_p |-> {}]
EnvAlt ==
    [blk |-> BlkSheet, mems |-> {ZeroFilled},
     temps |-> {UT27898, UT16384}, press |-> {UP23843},
     samplings |-> {"samples_1x"}, seas |-> {101325, 100000},
     zeros |-> MaxZeroAlt, lost_t |-> {}, lost_p |-> {}]
EnvCal(b) ==
    [blk |-> b, mems |-> {ZeroFilled},
     temps |-> {UT27898}, press |-> {UP23843},
     samplings |-> {"samples_1x"}, seas |-> {101325}, zeros |-> 0,
     lost_t |-> {}, lost_p |-> {}]
EnvLost ==
    [blk |-> BlkSheet, mems |-> {ZeroFilled},
     temps |-> {UT27898}, press |-> {UP23843},
     samplings |-> {"samples_1x"}, seas |-> {101325}, zeros |-> 0,
     lost_t |-> LostReads(2), lost_p |-> LostReads(3)]
Envs ==
    {EnvModes, EnvAlt, EnvLost}
        \cup {EnvCal(b) : b \in {BlkVector, BlkUnit, BlkEdge, BlkOnes, BlkLowAc4,
                                  BlkNegMd}}

VARIABLES
    env,             \* the environment of the run
    cal,             \* ac1, ac2, ac3, ac4, ac5, ac6, b1, b2, mb, mc, md
    reg_select_oss,  \* trigger code of a pressure conversion
    comp_time_us,    \* wait of a pressure conversion
    oss_shift,       \* oversampling shift
    sampling,        \* the sampling_t last set, "indeterminate" before
    b5,              \* the temperature intermediate
    temp,            \* stored temperature, tenths of a degree
    pres,            \* stored pressure, pascal
    alt_zero,        \* altitude offset
    halted,          \* the processor trapped in a division by zero
    \* history of the run
    last,            \* the operation called last
    arg,             \* its sea_level_p, 0 if it has none
    ret,             \* what it returned (init: 1 or 0; void: 0)
    bus,             \* the bus transactions and waits it made, in order
    fault,           \* "div0" if it divided by zero
    ready,           \* an init has succeeded
    zref,            \* sea_level_p of a zero_alt with only get_alt calls since
    b5_used,         \* << b5 >> the latest update_pres read, or << >>
    up_used,         \* << UP >> the last operation assembled, or << >>
    b5_wr,           \* << b5, bytes read >> of the latest update_temp, or << >>
    nzero,           \* zero_alt calls so far
    ub,              \* an operation so far read an unset field or divided by zero
    xfer             \* "failed" if a bus transfer of the last operation failed

oss   == << reg_select_oss, comp_time_us, oss_shift, sampling >>
meas  == << b5, temp, pres, b5_used, b5_wr >>
hist  == << last, arg, ret, bus, fault, up_used >>
vars  == << env, cal, oss, meas, alt_zero, halted, hist, ready, zref, nzero, ub,
           xfer >>

\* BMP180::BMP180, in environment E
Constructed(E) ==
    /\ env = E
    /\ \E mem \in env.mems :
          /\ cal = mem.cal
          /\ reg_select_oss = mem.reg
          /\ comp_time_us = mem.us
          /\ oss_shift = mem.shift
          /\ b5 = mem.b5
          /\ temp = mem.temp
          /\ pres = mem.pres
    /\ sampling = "indeterminate"
    /\ alt_zero = F(0)
    /\ halted = FALSE
    /\ last = "BMP180"
    /\ arg = 0
    /\ ret = F(0)
    /\ bus = << >>
    /\ fault = "none"
    /\ ready = FALSE
    /\ zref = 0
    /\ b5_used = << >>
    /\ up_used = << >>
    /\ b5_wr = << >>
    /\ nzero = 0
    /\ ub = FALSE
    /\ xfer = "ok"

Init == \E E \in Envs : Constructed(E)

----------------------------------------------------------------------------
(* The update steps, on a record m of the fields they touch and the history *)
(* of the operation that runs them.  ut and up are the bytes the device     *)
(* answers, o what the division of the step does.  Each step yields the set  *)
(* of records it can leave.                                                  *)

Meas ==
    [b5 |-> b5, temp |-> temp, pres |-> pres, b5_used |-> b5_used,
     up_used |-> << >>,
     b5_wr |-> b5_wr, bus |-> << >>, fault |-> "none", halted |-> FALSE,
     unset |-> FALSE]

\* update_temp waiting the conversion time of the pressure setting
TempStepModeWait(m, ut, o) ==
    LET UT  == read_int16(ut, 1)
        log == m.bus \o << BusWrite(reg_select_addr, reg_select_temp),
                           BusWait(comp_time_us),
                           BusRead(reg_data_addr, 2, ut) >>
        nb  == IF o = "quot" THEN TempB5(cal, UT)
               ELSE Add32(TempX1(cal, UT), Div0Value(o))
    IN  IF m.halted THEN m
        ELSE IF o = "trap"
             THEN [m EXCEPT !.bus = log, !.fault = "div0", !.halted = TRUE,
                            !.unset = m.unset \/ ~ready]
        ELSE [m EXCEPT !.bus = log,
                       !.fault = IF o = "quot" THEN m.fault ELSE "div0",
                       !.unset = m.unset \/ ~ready,
                       !.b5 = nb,
                       !.temp = TempT(nb),
                       !.b5_wr = << nb, ut >>]

\* BMP180::update_temp
TempStep(m, ut, o) ==
    LET UT  == read_int16(ut, 1)
        log == m.bus \o << BusWrite(reg_select_addr, reg_select_temp),
                           BusWait(4500),
                           BusRead(reg_data_addr, 2, ut) >>
        nb  == IF o = "quot" THEN TempB5(cal, UT)
               ELSE Add32(TempX1(cal, UT), Div0Value(o))
    IN  IF m.halted THEN m
        ELSE IF o = "trap"
             THEN [m EXCEPT !.bus = log, !.fault = "div0", !.halted = TRUE,
                            !.unset = m.unset \/ ~ready]
        ELSE [m EXCEPT !.bus = log,
                       !.fault = IF o = "quot" THEN m.fault ELSE "div0",
                       !.unset = m.unset \/ ~ready,
                       !.b5 = nb,
                       !.temp = TempT(nb),
                       !.b5_wr = << nb, ut >>]

\* update_pres reads cal, the oversampling parameters and b5: one is unset
PresUnset(m) == ~ready \/ sampling = "indeterminate" \/ m.b5_wr = << >>

\* BMP180::update_pres
PresStep(m, up, o) ==
    LET UP  == RawPres(up, oss_shift)
        log == m.bus \o << BusWrite(reg_select_addr, reg_select_oss),
                           BusWait(comp_time_us),
                           BusRead(reg_data_addr, 3, up) >>
        b7  == PresB7(cal, oss_shift, m.b5, UP)
        p   == IF o = "quot" THEN PresQuot(b7, PresB4(cal, m.b5))
               ELSE IF b7 >= 0 THEN Div0Value(o)
               ELSE Shl32(Div0Value(o), 1)
    IN  IF m.halted THEN m
        ELSE IF o = "trap"
             THEN [m EXCEPT !.bus = log, !.b5_used = << m.b5 >>,
                            !.up_used = << UP >>,
                            !.fault = "div0", !.halted = TRUE,
                            !.unset = m.unset \/ PresUnset(m)]
        ELSE [m EXCEPT !.bus = log,
                       !.b5_used = << m.b5 >>,
                       !.up_used = << UP >>,
                       !.unset = m.unset \/ PresUnset(m),
                       !.fault = IF o = "quot" THEN m.fault ELSE "div0",
                       !.pres = PresFinal(p)]

\* BMP180::update_temp with every outcome of its division
TempSteps(m, ut) ==
    {TempStep(m, ut, o) : o \in DivOutcomes(TempDen(cal, read_int16(ut, 1)))}

\* BMP180::update_pres with every outcome of its division
PresSteps(m, up) ==
    {PresStep(m, up, o) :
        o \in IF m.halted THEN {"quot"} ELSE DivOutcomes(PresB4(cal, m.b5))}

\* update with the pressure step before the temperature step
UpdateRunsPresFirst(m, ut, up) ==
    UNION {TempSteps(m1, ut) : m1 \in PresSteps(m, up)}

\* BMP180::update
UpdateRuns(m, ut, up) == UNION {PresSteps(m1, up) : m1 \in TempSteps(m, ut)}

\* BMP180::get_alt, on stored pressure p and offset az
GetAlt(p, sea_level_p, az) == FSub(Altitude(p, sea_level_p), az)

\* BMP180::zero_alt: the offset after update() left m
ZeroAlt(m, sea_level_p, az) ==
    IF m.halted THEN az ELSE GetAlt(m.pres, sea_level_p, az)

\* the fields and the history an operation leaves, from the record of its steps
Commit(m, op, a) ==
    /\ b5' = m.b5
    /\ temp' = m.temp
    /\ pres' = m.pres
    /\ b5_used' = m.b5_used
    /\ up_used' = m.up_used
    /\ b5_wr' = m.b5_wr
    /\ bus' = m.bus
    /\ fault' = m.fault
    /\ halted' = m.halted
    /\ last' = op
    /\ arg' = a
    /\ ret' = F(0)
    /\ ub' = (ub \/ m.unset \/ m.fault = "div0")

----------------------------------------------------------------------------
(* The operations of the driver *)

\* a bus transfer succeeds or fails, and what the read of the data register
\* then leaves in the buffer
Xfers == {"ok", "failed"}
TempReads(x) == IF x = "ok" THEN env.temps ELSE env.lost_t
PresReads(x) == IF x = "ok" THEN env.press ELSE env.lost_p

\* init with the identification checked after the calibration is loaded
init_checks_late ==
    /\ ~halted
    /\ \E id \in IdBytes :
          /\ bus' = << BusRead(reg_id_addr, 1, << id >>),
                       BusRead(reg_cal_addr, 22, env.blk) >>
          /\ cal' = DecodeCal(env.blk)
          /\ IF read_uint8(<< id >>, 1) # reg_id_val
             THEN /\ ret' = F(0)
                  /\ UNCHANGED << oss, ready >>
             ELSE /\ sampling' = "samples_1x"
                  /\ reg_select_oss' = SamplingParams("samples_1x").reg
                  /\ comp_time_us' = SamplingParams("samples_1x").us
                  /\ oss_shift' = SamplingParams("samples_1x").shift
                  /\ ret' = F(1)
                  /\ ready' = TRUE
    /\ last' = "init"
    /\ arg' = 0
    /\ fault' = "none"
    /\ zref' = 0
    /\ xfer' = "ok"
    /\ up_used' = << >>
    /\ UNCHANGED << env, meas, alt_zero, halted, nzero, ub >>

\* init that sets the default mode only on the first success
init_keeps_mode ==
    /\ ~halted
    /\ \E id \in IdBytes :
          IF read_uint8(<< id >>, 1) # reg_id_val
          THEN /\ bus' = << BusRead(reg_id_addr, 1, << id >>) >>
               /\ ret' = F(0)
               /\ UNCHANGED << cal, oss, ready >>
          ELSE /\ bus' = << BusRead(reg_id_addr, 1, << id >>),
                            BusRead(reg_cal_addr, 22, env.blk) >>
               /\ cal' = DecodeCal(env.blk)
               /\ IF ready
                  THEN UNCHANGED oss
                  ELSE /\ sampling' = "samples_1x"
                       /\ reg_select_oss' = SamplingParams("samples_1x").reg
                       /\ comp_time_us' = SamplingParams("samples_1x").us
                       /\ oss_shift' = SamplingParams("samples_1x").shift
               /\ ret' = F(1)
               /\ ready' = TRUE
    /\ last' = "init"
    /\ arg' = 0
    /\ fault' = "none"
    /\ zref' = 0
    /\ xfer' = "ok"
    /\ up_used' = << >>
    /\ UNCHANGED << env, meas, alt_zero, halted, nzero, ub >>

\* BMP180::init, with the identification byte id on the bus
init ==
    /\ ~halted
    /\ \E id \in IdBytes :
          IF read_uint8(<< id >>, 1) # reg_id_val
          THEN /\ bus' = << BusRead(reg_id_addr, 1, << id >>) >>
               /\ ret' = F(0)
               /\ UNCHANGED << cal, oss, ready >>
          ELSE /\ bus' = << BusRead(reg_id_addr, 1, << id >>),
                            BusRead(reg_cal_addr, 22, env.blk) >>
               /\ cal' = DecodeCal(env.blk)
               /\ sampling' = "samples_1x"
               /\ reg_select_oss' = SamplingParams("samples_1x").reg
               /\ comp_time_us' = SamplingParams("samples_1x").us
               /\ oss_shift' = SamplingParams("samples_1x").shift
               /\ ret' = F(1)
               /\ ready' = TRUE
    /\ last' = "init"
    /\ arg' = 0
    /\ fault' = "none"
    /\ zref' = 0
    /\ xfer' = "ok"
    /\ up_used' = << >>
    /\ UNCHANGED << env, meas, alt_zero, halted, nzero, ub >>

\* set_sampling that also writes the trigger code to the control register
set_sampling_writes ==
    /\ ~halted
    /\ \E s \in env.samplings :
          /\ sampling' = s
          /\ reg_select_oss' = SamplingParams(s).reg
          /\ comp_time_us' = SamplingParams(s).us
          /\ oss_shift' = SamplingParams(s).shift
          /\ bus' = << BusWrite(reg_select_addr, SamplingParams(s).reg) >>
    /\ last' = "set_sampling"
    /\ arg' = 0
    /\ ret' = F(0)
    /\ fault' = "none"
    /\ zref' = 0
    /\ xfer' = "ok"
    /\ up_used' = << >>
    /\ UNCHANGED << env, cal, meas, alt_zero, halted, ready, nzero, ub >>

\* BMP180::set_sampling
set_sampling ==
    /\ ~halted
    /\ \E s \in env.samplings :
          /\ sampling' = s
          /\ reg_select_oss' = SamplingParams(s).reg
          /\ comp_time_us' = SamplingParams(s).us
          /\ oss_shift' = SamplingParams(s).shift
    /\ last' = "set_sampling"
    /\ arg' = 0
    /\ ret' = F(0)
    /\ bus' = << >>
    /\ fault' = "none"
    /\ zref' = 0
    /\ xfer' = "ok"
    /\ up_used' = << >>
    /\ UNCHANGED << env, cal, meas, alt_zero, halted, ready, nzero, ub >>

\* BMP180::update
update ==
    /\ ~halted
    /\ \E xt \in Xfers, xp \in Xfers :
          \E ut \in TempReads(xt), up \in PresReads(xp) :
             /\ \E m \in UpdateRuns(Meas, ut, up) : Commit(m, "update", 0)
             /\ xfer' = IF xt = "ok" THEN xp ELSE xt
    /\ zref' = 0
    /\ UNCHANGED << env, cal, oss, alt_zero, ready, nzero >>

\* BMP180::update_temp
update_temp ==
    /\ ~halted
    /\ \E x \in Xfers :
          \E ut \in TempReads(x) :
             /\ \E m \in TempSteps(Meas, ut) : Commit(m, "update_temp", 0)
             /\ xfer' = x
    /\ zref' = 0
    /\ UNCHANGED << env, cal, oss, alt_zero, ready, nzero >>

\* update_pres with the result b3 stored in the field b2 instead
update_pres_typo ==
    /\ ~halted
    /\ \E x \in Xfers :
          \E up \in PresReads(x) :
             /\ \E m \in PresSteps(Meas, up) : Commit(m, "update_pres", 0)
             /\ xfer' = x
    /\ cal' = [cal EXCEPT !.b2 = PresB3(cal, oss_shift, b5)]
    /\ zref' = 0
    /\ UNCHANGED << env, oss, alt_zero, ready, nzero >>

\* update_pres that runs the temperature step first, as update does
update_pres_full ==
    /\ ~halted
    /\ \E x \in Xfers :
          \E up \in PresReads(x), ut \in env.temps :
             /\ \E m \in UpdateRuns(Meas, ut, up) : Commit(m, "update_pres", 0)
             /\ xfer' = x
    /\ zref' = 0
    /\ UNCHANGED << env, cal, oss, alt_zero, ready, nzero >>

\* BMP180::update_pres
update_pres ==
    /\ ~halted
    /\ \E x \in Xfers :
          \E up \in PresReads(x) :
             /\ \E m \in PresSteps(Meas, up) : Commit(m, "update_pres", 0)
             /\ xfer' = x
    /\ zref' = 0
    /\ UNCHANGED << env, cal, oss, alt_zero, ready, nzero >>

\* BMP180::get_temp
get_temp ==
    /\ ~halted
    /\ ret' = F(temp)
    /\ ub' = (ub \/ b5_wr = << >>)
    /\ xfer' = "ok"
    /\ up_used' = << >>
    /\ last' = "get_temp"
    /\ arg' = 0
    /\ bus' = << >>
    /\ fault' = "none"
    /\ zref' = 0
    /\ UNCHANGED << env, cal, oss, meas, alt_zero, halted, ready, nzero >>

\* BMP180::get_pres
get_pres ==
    /\ ~halted
    /\ ret' = F(pres)
    /\ ub' = (ub \/ b5_used = << >>)
    /\ xfer' = "ok"
    /\ up_used' = << >>
    /\ last' = "get_pres"
    /\ arg' = 0
    /\ bus' = << >>
    /\ fault' = "none"
    /\ zref' = 0
    /\ UNCHANGED << env, cal, oss, meas, alt_zero, halted, ready, nzero >>

\* BMP180::get_alt
get_alt ==
    /\ ~halted
    /\ \E sea_level_p \in env.seas :
          /\ ret' = GetAlt(pres, sea_level_p, alt_zero)
          /\ arg' = sea_level_p
    /\ ub' = (ub \/ b5_used = << >>)
    /\ xfer' = "ok"
    /\ up_used' = << >>
    /\ last' = "get_alt"
    /\ bus' = << >>
    /\ fault' = "none"
    /\ UNCHANGED << env, cal, oss, meas, alt_zero, halted, ready, zref, nzero >>

\* BMP180::zero_alt
zero_alt ==
    /\ ~halted
    /\ nzero < env.zeros
    /\ \E sea_level_p \in env.seas, xt \in Xfers, xp \in Xfers :
          \E ut \in TempReads(xt), up \in PresReads(xp) :
             \E m \in UpdateRuns(Meas, ut, up) :
                /\ Commit(m, "zero_alt", sea_level_p)
                /\ alt_zero' = ZeroAlt(m, sea_level_p, alt_zero)
                /\ zref' = IF m.halted THEN 0 ELSE sea_level_p
                /\ xfer' = IF xt = "ok" THEN xp ELSE xt
    /\ nzero' = nzero + 1
    /\ UNCHANGED << env, cal, oss, ready >>

Next ==
    \/ init
    \/ set_sampling
    \/ update
    \/ update_temp
    \/ update_pres
    \/ get_temp
    \/ get_pres
    \/ get_alt
    \/ zero_alt

Spec == Init /\ [][Next]_vars

----------------------------------------------------------------------------
(* The assembly of the raw pressure, over every mode and the 3-byte reads *)
(* made of the bytes RawBytes                                              *)

RawBytes == {0, 128, 255}
EnvRaw ==
    [blk |-> BlkSheet, mems |-> {ZeroFilled},
     temps |-> {UT27898},
     press |-> {<< msb, lsb, xlsb >> : msb \in RawBytes, lsb \in RawBytes,
                                       xlsb \in RawBytes},
     samplings |-> Samplings, seas |-> {101325}, zeros |-> 0,
     lost_t |-> {}, lost_p |-> {}]

InitRaw == Constructed(EnvRaw)

NextRaw ==
    \/ init
    \/ set_sampling
    \/ update_pres

SpecRaw == InitRaw /\ [][NextRaw]_vars

----------------------------------------------------------------------------
(* Properties of the driver *)

\* the operation just run executed the temperature step, the pressure step
TempRan == last \in {"update_temp", "update", "zero_alt"}
PresRan == \/ last = "update_pres" /\ Len(bus) = 3
           \/ last \in {"update", "zero_alt"} /\ Len(bus) = 6

\* the transactions of the pressure step in the log of the operation just run
PresBus == SubSeq(bus, Len(bus) - 2, Len(bus))

\* the trigger command and the conversion delay the data sheet gives a mode
ModeCommand(s) ==
    CASE s = "samples_1x" -> 52  [] s = "samples_2x" -> 116
      [] s = "samples_4x" -> 180 [] s = "samples_8x" -> 244
ModeDelay(s) ==
    CASE s = "samples_1x" -> 4500  [] s = "samples_2x" -> 7500
      [] s = "samples_4x" -> 13500 [] s = "samples_8x" -> 25500

\* C1, as stated: in a run free of undefined behaviour, a get_alt(ref) that
\* follows a zero_alt(ref) with nothing but get_alt calls in between, the
\* stored pressure being positive, returns zero.
GetAltZeroAfterZeroAlt ==
    (last = "get_alt" /\ zref # 0 /\ arg = zref /\ ~ub /\ pres > 0)
        => ret = F(0)

\* C2: an init that reads an identification byte other than 0x55 returns
\* failure, makes no bus transaction but that one read of the identification
\* register, and leaves the eleven calibration constants and the
\* oversampling parameters as they were.
InitMismatchCommitsNothing ==
    [][(last' = "init" /\ bus'[1][4] # << 85 >>)
          => /\ ret' = F(0)
             /\ Len(bus') = 1
             /\ bus'[1][1] = "read" /\ bus'[1][2] = 208 /\ bus'[1][3] = 1
             /\ cal' = cal
             /\ oss' = oss]_vars

\* C2, its case: a mismatch on a driver an earlier init had loaded
InitMismatchAfterSuccess ==
    last = "init" /\ ret = F(0) /\ ready /\ cal = DecodeCal(env.blk)
        /\ sampling = "samples_8x"

\* C3: the pressure step of an operation is a write of the command of the
\* current mode to the control register, a wait of the delay of that mode
\* and a 3-byte read of the data register, in this order, the mode being the
\* one the latest successful init or set_sampling set.
PresStepFollowsMode ==
    (PresRan /\ sampling \in Samplings)
        => /\ PresBus[1] = << "write", 244, 1, << ModeCommand(sampling) >> >>
           /\ PresBus[2] = << "wait", ModeDelay(sampling), 0, << >> >>
           /\ PresBus[3][1] = "read" /\ PresBus[3][2] = 246
           /\ PresBus[3][3] = 3 /\ Len(PresBus[3][4]) = 3

\* C3, its case: a pressure update in a mode set_sampling chose after init
PresStepInSetMode ==
    last = "update_pres" /\ ready /\ sampling = "samples_4x"
        /\ bus[2] = << "wait", 13500, 0, << >> >>

\* C4: the temperature step of an operation is a write of 0x2E to the
\* control register, a wait of 4500 microseconds and a 2-byte read of the
\* data register, in this order and first in the operation, whatever the
\* oversampling parameters are.
TempStepFixedSequence ==
    TempRan
        => /\ Len(bus) >= 3
           /\ bus[1] = << "write", 244, 1, << 46 >> >>
           /\ bus[2] = << "wait", 4500, 0, << >> >>
           /\ bus[3][1] = "read" /\ bus[3][2] = 246
           /\ bus[3][3] = 2 /\ Len(bus[3][4]) = 2
           /\ (last = "update_temp" => Len(bus) = 3)

\* C4, its case: a temperature update while the mode's delay is not 4500
TempStepInSlowMode ==
    last = "update_temp" /\ ready /\ comp_time_us = 25500

\* C5: set_sampling leaves the stored temperature and pressure, b5, the
\* altitude offset and the calibration constants as they were and makes no
\* bus transaction; the oversampling parameters are all it changes.
SetSamplingFrame ==
    [][last' = "set_sampling"
          => /\ temp' = temp /\ pres' = pres /\ b5' = b5
             /\ alt_zero' = alt_zero /\ cal' = cal
             /\ bus' = << >>
             /\ F(temp') = F(temp) /\ F(pres') = F(pres)
             /\ halted' = halted]_vars

\* C5, its case: a change of mode after readings were stored
SetSamplingAfterUpdate ==
    last = "set_sampling" /\ ready /\ sampling = "samples_2x"
        /\ b5_wr # << >> /\ b5_used # << >> /\ pres # 0 /\ temp # 0

\* the reference temperature vector: ac5 = 408, ac6 = 23153, mc = -8711,
\* md = 2868 loaded by init, and update_temp just run on UT = 27898
RefTempCase ==
    /\ last = "update_temp" /\ ready
    /\ cal.ac5 = 408 /\ cal.ac6 = 23153 /\ cal.mc = -8711 /\ cal.md = 2868
    /\ bus[3][4] = << 108, 250 >>

\* C6, as stated: on the reference temperature vector update_temp yields
\* b5 = 2399 and T = 150.
RefTempYields2399 == RefTempCase => (b5 = 2399 /\ temp = 150)

\* C6, amended: on the reference temperature vector update_temp yields
\* b5 = -6036 and T = -377.
RefTempYieldsMinus6036 == RefTempCase => (b5 = -6036 /\ temp = -377)

\* C6, its case: the vector was computed, with no fault
RefTempComputed == RefTempCase /\ fault = "none" /\ b5_wr[1] = b5

\* the reference pressure vector: ac1 = 408, ac2 = -72, ac3 = -14383,
\* ac4 = 32741, b1 = 6190, b2 = 4 loaded by init, shift 0, and the pressure
\* step just run on UP = 23843 with b5 = 2399
RefPresCase ==
    /\ PresRan /\ ready
    /\ cal.ac1 = 408 /\ cal.ac2 = -72 /\ cal.ac3 = -14383
    /\ cal.ac4 = 32741 /\ cal.b1 = 6190 /\ cal.b2 = 4
    /\ oss_shift = 0
    /\ PresBus[3][4] = << 93, 35, 0 >>
    /\ b5_used = << 2399 >>

\* C7: on the reference pressure vector the pressure step yields p = 69964.
RefPresYields69964 == RefPresCase => pres = 69964

\* C7, its case: update_pres computed the vector after an update_temp
RefPresComputed == RefPresCase /\ last = "update_pres" /\ fault = "none"

\* C8, as stated: an update_pres after a successful init and before any
\* update_temp does not divide by zero and leaves the calibration
\* constants, the oversampling parameters, b5 and the stored temperature
\* as they were.
PresBeforeTempDefined ==
    [][(ready /\ b5_wr = << >> /\ last' = "update_pres")
          => /\ fault' = "none" /\ ~halted'
             /\ cal' = cal /\ oss' = oss /\ b5' = b5 /\ temp' = temp]_vars

\* C9: b5 is what the latest update_temp wrote, or what the memory held if
\* there was none; the pressure step of an operation read that b5; and in
\* update (and zero_alt) the temperature step that wrote it is the one of
\* the same operation, run before the pressure step.
B5FromLatestTemp ==
    /\ b5_wr = << >> => \E mem \in env.mems : b5 = mem.b5
    /\ b5_wr # << >> => b5 = b5_wr[1]
    /\ (PresRan /\ b5_wr # << >>) => b5_used = << b5_wr[1] >>
    /\ (PresRan /\ last # "update_pres")
          => /\ b5_wr # << >>
             /\ b5_wr[2] = bus[3][4]
             /\ b5_used = << b5_wr[1] >>
             /\ bus[1][1] = "write" /\ bus[1][4] = << 46 >>

\* C9, its case: an update whose temperature reading changed b5
UpdateUsedOwnB5 ==
    last = "update" /\ ready /\ Len(bus) = 6 /\ fault = "none"
        /\ b5_used = << 2399 >> /\ bus[3][4] = << 108, 250 >>

\* the two bytes of a 16-bit value, high byte first
Bytes16(v) == << (v % 65536) \div 256, v % 256 >>

\* the 22-byte layout of eleven calibration constants
EncodeCal(c) ==
    Bytes16(c.ac1) \o Bytes16(c.ac2) \o Bytes16(c.ac3) \o Bytes16(c.ac4)
        \o Bytes16(c.ac5) \o Bytes16(c.ac6) \o Bytes16(c.b1) \o Bytes16(c.b2)
        \o Bytes16(c.mb) \o Bytes16(c.mc) \o Bytes16(c.md)

\* C10: a successful init reads the 22 bytes at 0xAA in one transaction and
\* holds the eleven constants whose layout that block is, ac4, ac5, ac6 as
\* unsigned and the others as signed 16-bit values.
InitDecodesBlock ==
    (last = "init" /\ ret = F(1))
        => /\ Len(bus) = 2
           /\ bus[2] = << "read", 170, 22, env.blk >>
           /\ EncodeCal(cal) = env.blk
           /\ \A f \in {"ac4", "ac5", "ac6"} : cal[f] \in 0 .. 65535
           /\ \A f \in {"ac1", "ac2", "ac3", "b1", "b2", "mb", "mc", "md"} :
                 cal[f] \in -32768 .. 32767
           /\ env.blk = BlkUnit
                 => cal = [ac1 |-> 8240, ac2 |-> -1196, ac3 |-> -14709,
                           ac4 |-> 32912, ac5 |-> 24959, ac6 |-> 16487,
                           b1 |-> 6515, b2 |-> 48, mb |-> -32768,
                           mc |-> -11786, md |-> 2845]

\* C10, its case: a block with an unsigned constant above 32767 was decoded
InitDecodedHighAc4 ==
    last = "init" /\ ret = F(1) /\ cal.ac4 = 32912 /\ cal.ac1 = 8240
        /\ cal.mb = -32768

\* C11: a successful init leaves the mode at samples_1x with trigger code
\* 0x34, delay 4500 microseconds and shift 0, whatever the mode was before.
InitSetsDefaultMode ==
    (last = "init" /\ ret = F(1))
        => /\ sampling = "samples_1x"
           /\ reg_select_oss = 52 /\ comp_time_us = 4500 /\ oss_shift = 0

\* C11, its case: a successful init while the stored pressure is the 121200
\* that only an update_pres in mode samples_4x or samples_8x computes from
\* b5 = 2399 (samples_1x and samples_2x give 121199)
InitAfterOversampling ==
    last = "init" /\ ret = F(1) /\ env.blk = BlkSheet
        /\ b5_used = << 2399 >> /\ pres = 121200

\* C12: once a successful init has loaded the calibration constants, no
\* operation changes any of them, except a successful init, which loads
\* the block the device delivers.
CalibrationImmutable ==
    [][ready => IF last' = "init" /\ ret' = F(1)
                THEN cal' = DecodeCal(env.blk)
                ELSE cal' = cal]_vars

\* C12, its case: the loaded constants after a session that ends with a
\* second zero_alt
CalibrationAfterSession ==
    ready /\ last = "zero_alt" /\ nzero = 2 /\ fault = "none"
        /\ cal = DecodeCal(env.blk) /\ cal.ac1 = 408

\* C13, as stated: an update_temp or update_pres one of whose bus transfers
\* fails, run when a valid temperature and pressure are stored, leaves the
\* stored temperature, the stored pressure and b5 as they were.
LostTransferKeepsReadings ==
    [][(/\ ready /\ ~ub /\ b5_wr # << >> /\ b5_used # << >>
        /\ xfer' = "failed" /\ last' \in {"update_temp", "update_pres"})
          => (b5' = b5 /\ temp' = temp /\ pres' = pres)]_vars

\* a / b truncated towards zero, b # 0
TruncDiv(a, b) ==
    LET q == (IF a < 0 THEN -a ELSE a) \div (IF b < 0 THEN -b ELSE b)
    IN  IF (a < 0) = (b < 0) THEN q ELSE -q

\* x1 of the temperature step as signed arithmetic gives it:
\* ((UT - ac6) * ac5) >> 15 with an arithmetic shift
SignedX1(c, UT) == Sar32(Mul32(Sub32(UT, c.ac6), c.ac5), 15)

\* C14, as stated: the b5 an update_temp stores, its division being
\* defined, is x1 + x2 with x1 the signed ((UT - ac6) * ac5) >> 15 and
\* x2 = (mc << 11) / (x1 + md) truncated towards zero, and x1 is negative
\* when UT < ac6.
TempB5IsSigned ==
    (last = "update_temp" /\ ready /\ fault = "none" /\ xfer = "ok")
        => LET UT  == read_int16(bus[3][4], 1)
               x1  == SignedX1(cal, UT)
               den == x1 + cal.md
           IN  den # 0
                 => /\ b5 = x1 + TruncDiv(cal.mc * 2048, den)
                    /\ UT < cal.ac6 => x1 < 0

\* C15: the raw pressure a pressure step assembles, the shift s of the mode
\* being one of 0..3, is (msb * 65536 + lsb * 256 + xlsb) shifted right by
\* 8 - s, with msb, lsb, xlsb the bytes of the 3-byte read in this order;
\* it is non-negative and below 2^(16 + s).
RawPresAssembled ==
    (PresRan /\ oss_shift \in 0 .. 3)
        => LET r == PresBus[3][4]
               v == r[1] * 65536 + r[2] * 256 + r[3]
           IN  /\ up_used = << v \div Pow2(8 - oss_shift) >>
               /\ up_used[1] >= 0
               /\ up_used[1] < Pow2(16 + oss_shift)

\* C15, its case: the largest read assembled in the widest mode
RawPresWidest ==
    last = "update_pres" /\ ready /\ oss_shift = 3
        /\ bus[3][4] = << 255, 255, 255 >> /\ up_used = << 524287 >>

\* C16, as stated: an update_temp on a loaded calibration, its transfers
\* succeeding, does not divide by zero: the divisor x1 + md is non-zero.
TempDivisorNonZero ==
    (ready /\ last = "update_temp" /\ xfer = "ok")
        => /\ fault = "none"
           /\ TempDen(cal, read_int16(bus[3][4], 1)) # 0

\* the fields no update step and no getter writes
Settings == << cal, oss, alt_zero >>

\* C17: update_temp leaves the stored pressure, update_pres the stored
\* temperature and b5, and both the altitude offset, the oversampling
\* parameters and the calibration as they were; get_temp, get_pres and
\* get_alt change no field and make no bus transaction, and a getter
\* repeated with the same argument returns the same value.
UpdateAndGetterFrames ==
    [][/\ last' = "update_temp"
            => (pres' = pres /\ Settings' = Settings)
       /\ last' = "update_pres"
            => (temp' = temp /\ b5' = b5 /\ Settings' = Settings)
       /\ last' \in {"get_temp", "get_pres", "get_alt"}
            => /\ temp' = temp /\ pres' = pres /\ b5' = b5
               /\ Settings' = Settings
               /\ bus' = << >>
               /\ (last = last' /\ arg = arg') => ret' = ret]_vars

\* C17, its case: an update_pres on a driver that holds a temperature
UpdatePresKeptTemp ==
    last = "update_pres" /\ ready /\ b5_wr # << >> /\ fault = "none"
        /\ b5 = 2399 /\ temp = 150 /\ pres = 121200

\* the trigger code, conversion delay and shift of the four modes
ModeTable ==
    {<< 52, 4500, 0 >>, << 116, 7500, 1 >>, << 180, 13500, 2 >>,
     << 244, 25500, 3 >>}

\* C18, as stated: whenever update_pres triggers a pressure conversion,
\* also before init or after a failed init, the command byte it writes,
\* the delay it waits and the shift it uses are one entry of the table of
\* the four modes.
PresTriggerInTable ==
    (last = "update_pres" /\ Len(bus) = 3)
        => /\ PresBus[1][1] = "write" /\ PresBus[2][1] = "wait"
           /\ << PresBus[1][4][1], PresBus[2][2], oss_shift >> \in ModeTable

=============================================================================
